---- MODULE Spec2Model ----
(***************************************************************************)
(* State-machine model of the CollectFi platform core:                     *)
(*   TradingEngine (orders, portfolios, marketData),                       *)
(*   VaultManager  (redemptionRequests),                                   *)
(*   Wallet        (connected, publicKey),                                 *)
(*   CollectFi     (the facade that guards the engine with the wallet).    *)
(* Every public method is one action when its caller awaits it before the *)
(* next call.  The methods are async: a call that is made while another is *)
(* in flight runs between the other's awaits, and the segments between the *)
(* awaits of sellTokens and cancelOrder are actions of their own (calls).   *)
(* Date fields (createdAt, lastUpdated, requestedAt) and the opaque         *)
(* shipping address do not influence any branch and are left out.           *)
(***************************************************************************)
EXTENDS Integers, Sequences, FiniteSets, TLC

(* ------------------------------ bounds -------------------------------- *)
MaxTrades == 2
MaxOrders == 2
MaxOrderTrades == 1
MaxRequests == 1
MaxClock == 1
MaxAdded == 1
MaxUpdates == 1
MaxCalls == 2
MaxRepeats == 2

(* ------------------------- program constants -------------------------- *)
TotalSupply == 100000
RedemptionThreshold == 100000
TokenQuantity == 100000
Price1 == 180
Price2 == 175
SampleDays == 30
RetentionLimit == 1000

Mint1 == "ROLEXDAYTONA1mintaddress123456789"
Mint2 == "ROLEXDAYTONA2mintaddress123456789"
UnknownMint == "NonExistentMint123456789"
Id1 == "rolex-daytona-panda-1"
Id2 == "rolex-daytona-panda-2"

(* ------------------------------ inputs -------------------------------- *)
Accounts == {"A", "B"}
MintArgs == {Mint1, Mint2, UnknownMint}
\* quantity: number is not validated by the engine: negative and zero occur
Quantities == {-1, 0, 1, TotalSupply}
\* the inputs of the specifications that exercise orders or redemptions
UnitQuantities == {1}
LotQuantities == {1, TotalSupply}
NoLimit == {0}
WholeSupply == {TotalSupply}
KnownMint == {Mint1}
\* maxPrice / minPrice: 0 stands for an omitted (falsy) optional argument
PriceLimits == {0, 179}
OrderPriceLimits == {0, 179, 181}
OrderSides == {"buy", "sell"}
OrderQuantities == {1}
OrderPrices == {180}
\* placeLimitOrder: quantity and price are numbers that nothing validates
AnyQuantities == {-1, 1}
AnyPrices == {0, 180}
AnyMint == {Mint1, UnknownMint}
\* trackingNumber: "" stands for an omitted (falsy) optional argument
TrackingArgs == {"", "TRK1"}
NoTracking == {""}
\* Math.random() during initialize, in percent: the midpoint of its range
\* (with any other value every further initialize moves the price of an
\* added asset again, without bound)
SampleDraw == {50}
\* addAsset: the asset data of an added asset
AssetNames == {"Rolex Daytona Panda 3", "Omega Speedmaster"}
AddedMints == {Mint1, "OMEGA1mintaddress123456789"}
AddedPrice == 100
\* the length of the priceHistory of the asset data: none, or a recorded
\* history of about the retention limit
HistoryLengths == {0, RetentionLimit - 1, RetentionLimit, RetentionLimit + 1}
UnknownId == "non-existent-id"
RedemptionStatus == {"pending", "processing", "shipped", "delivered", "cancelled"}
\* generateOrderId / generateRedemptionId: a fresh identifier per call
OrderId(n) == "order_" \o ToString(n)
RequestId(n) == "redemption_" \o ToString(n)
OrderIds == {OrderId(n) : n \in 1 .. MaxOrders}
RequestIds == {RequestId(n) : n \in 1 .. MaxRequests}

\* calls that are made without awaiting the call before
CallIds == 1 .. MaxCalls
\* the route modules, each with its own `new CollectFi(connection, DEFAULT_CONFIG)`
RouteGroups == {"assets", "trading", "portfolio", "vault", "market"}

VARIABLES orders, portfolios, marketData, redemptionRequests, wallet,
          lastResult, nTrades, assets, priceHistory, now, calls, platforms

engineVars == <<orders, portfolios, marketData>>
assetVars == <<assets, priceHistory, now>>
vars == <<orders, portfolios, marketData, redemptionRequests, wallet,
          lastResult, nTrades, assets, priceHistory, now, calls, platforms>>

(* --------------------------- Map<K, V> -------------------------------- *)
Has(map, k) == k \in DOMAIN map

Put(map, k, v) == [x \in (DOMAIN map) \cup {k} |-> IF x = k THEN v ELSE map[x]]

EmptyMap == [x \in {} |-> 0]

\* the null of `map.get(key) || null`
Null == [null |-> TRUE]

(* ------------------- JavaScript numbers (rationals) -------------------- *)
\* A quotient is kept as a reduced fraction; den = 0 is a non-finite result
\* (NaN or an infinity), which absorbs every further operation.
Abs(n) == IF n < 0 THEN -n ELSE n

RECURSIVE GCD(_, _)
GCD(a, b) == IF b = 0 THEN a ELSE GCD(b, a % b)

NaN == [num |-> 0, den |-> 0]

Rat(n, d) ==
  IF d = 0 THEN NaN
  ELSE LET g == GCD(Abs(n), Abs(d))
           s == IF d < 0 THEN -1 ELSE 1
       IN [num |-> s * (n \div g), den |-> s * (d \div g)]

FromInt(n) == [num |-> n, den |-> 1]

IsFinite(r) == r.den # 0

RatAdd(a, b) ==
  IF IsFinite(a) /\ IsFinite(b)
  THEN Rat(a.num * b.den + b.num * a.den, a.den * b.den) ELSE NaN

RatSub(a, b) == RatAdd(a, [num |-> -b.num, den |-> b.den])

RatMul(a, b) ==
  IF IsFinite(a) /\ IsFinite(b) THEN Rat(a.num * b.num, a.den * b.den) ELSE NaN

RatDiv(a, b) ==
  IF IsFinite(a) /\ IsFinite(b) THEN Rat(a.num * b.den, a.den * b.num) ELSE NaN

RatGtZero(r) == IsFinite(r) /\ r.num > 0

(* ------------------------- TradingEngine ------------------------------ *)
\* initializeMarketData: the two sample MarketData records
SampleMarketData(mint, price, volume, high, low) ==
  [assetMint |-> mint, currentPrice |-> price, volume24h |-> volume,
   marketCap |-> price * TotalSupply, circulatingSupply |-> TotalSupply,
   totalSupply |-> TotalSupply, high24h |-> high, low24h |-> low]

InitializeMarketData(md) ==
  Put(Put(md, Mint1, SampleMarketData(Mint1, Price1, 2800, 185, 175)),
      Mint2, SampleMarketData(Mint2, Price2, 2200, 178, 172))

\* portfolio.assets.find((a) => a.mint === assetMint): index of the first
\* match, 0 when there is none
RECURSIVE FindFrom(_, _, _)
FindFrom(held, mint, i) ==
  IF i > Len(held) THEN 0
  ELSE IF held[i].mint = mint THEN i ELSE FindFrom(held, mint, i + 1)

FindAsset(held, mint) == FindFrom(held, mint, 1)

RECURSIVE SumCurrentValue(_)
SumCurrentValue(held) ==
  IF held = <<>> THEN 0
  ELSE Head(held).currentValue + SumCurrentValue(Tail(held))

NewPortfolio(walletAddress) ==
  [userId |-> walletAddress, walletAddress |-> walletAddress, assets |-> <<>>,
   totalValue |-> 0, totalValueUSD |-> 0, pnl24h |-> 0, pnl7d |-> 0, pnl30d |-> 0]

NewPortfolioAsset(assetMint) ==
  [assetId |-> assetMint, mint |-> assetMint, quantity |-> 0,
   averagePrice |-> FromInt(0), currentValue |-> 0,
   pnl |-> FromInt(0), pnlPercentage |-> FromInt(0)]

\* the buy / sell branch of updateUserPortfolio on one PortfolioAsset
ApplyTrade(asset, quantity, price, side) ==
  IF side = "buy"
  THEN LET totalCost ==
             RatAdd(RatMul(FromInt(asset.quantity), asset.averagePrice),
                    FromInt(quantity * price))
           totalQuantity == asset.quantity + quantity
       IN [asset EXCEPT !.averagePrice = RatDiv(totalCost, FromInt(totalQuantity)),
                        !.quantity = totalQuantity]
  ELSE LET q == asset.quantity - quantity
       IN [asset EXCEPT !.quantity = IF q < 0 THEN 0 ELSE q]

\* "Update current value and P&L" of updateUserPortfolio
Revalue(asset, md, assetMint) ==
  IF Has(md, assetMint)
  THEN LET currentValue == asset.quantity * md[assetMint].currentPrice
           cost == RatMul(FromInt(asset.quantity), asset.averagePrice)
           pnl == RatSub(FromInt(currentValue), cost)
       IN [asset EXCEPT
             !.currentValue = currentValue,
             !.pnl = pnl,
             !.pnlPercentage =
               IF RatGtZero(asset.averagePrice)
               THEN RatMul(RatDiv(pnl, cost), FromInt(100))
               ELSE FromInt(0)]
  ELSE asset

\* mutant: the entries of quantity zero are kept
KeepHeld_NonNegative(a) == a.quantity >= 0

\* portfolio.assets.filter((a) => a.quantity > 0)
KeepHeld(a) == a.quantity > 0

\* mutant: the emptied entries are not removed
RemoveEmpty_KeepAll(held) == held

RemoveEmpty(held) == SelectSeq(held, KeepHeld)

\* updateUserPortfolio: the new portfolios map
UpdateUserPortfolio(pfs, md, walletAddress, assetMint, quantity, price, side) ==
  LET portfolio == IF Has(pfs, walletAddress) THEN pfs[walletAddress]
                   ELSE NewPortfolio(walletAddress)
      found == FindAsset(portfolio.assets, assetMint)
      assets0 == IF found = 0
                 THEN Append(portfolio.assets, NewPortfolioAsset(assetMint))
                 ELSE portfolio.assets
      i == IF found = 0 THEN Len(assets0) ELSE found
      asset == Revalue(ApplyTrade(assets0[i], quantity, price, side), md, assetMint)
      assets1 == [assets0 EXCEPT ![i] = asset]
  IN Put(pfs, walletAddress,
         [portfolio EXCEPT !.totalValue = SumCurrentValue(assets1),
                           !.assets = RemoveEmpty(assets1)])

\* updateMarketDataAfterTrade: the new marketData map
UpdateMarketDataAfterTrade(md, assetMint, quantity, side, price) ==
  IF ~Has(md, assetMint) THEN md
  ELSE LET d == md[assetMint]
       IN Put(md, assetMint,
              [d EXCEPT !.currentPrice = price,
                        !.high24h = IF price > d.high24h THEN price ELSE d.high24h,
                        !.low24h = IF price < d.low24h THEN price ELSE d.low24h,
                        !.volume24h = d.volume24h + quantity * price,
                        !.marketCap = price * d.totalSupply])

\* getUserPortfolio(...)?.assets.find(...)?.quantity, 0 when there is none
Position(pfs, walletAddress, assetMint) ==
  IF ~Has(pfs, walletAddress) THEN 0
  ELSE LET i == FindAsset(pfs[walletAddress].assets, assetMint)
       IN IF i = 0 THEN 0 ELSE pfs[walletAddress].assets[i].quantity

\* TradingEngine.getUserPortfolio
GetUserPortfolio(pfs, walletAddress) ==
  IF Has(pfs, walletAddress) THEN pfs[walletAddress] ELSE Null

HoldsAsset(pfs, walletAddress, assetMint) ==
  Has(pfs, walletAddress) /\ FindAsset(pfs[walletAddress].assets, assetMint) # 0

\* by: the userId argument of a call that takes one
Result(op, code, arg) == [op |-> op, code |-> code, arg |-> arg, by |-> ""]

\* the outcome of TradingEngine.buyTokens: "OK" or the code of the error thrown
BuyOutcome(md, assetMint, maxPrice) ==
  IF ~Has(md, assetMint) THEN "ASSET_NOT_FOUND"
  ELSE IF maxPrice # 0 /\ md[assetMint].currentPrice > maxPrice THEN "PRICE_EXCEEDED"
  ELSE "OK"

\* the outcome of TradingEngine.sellTokens
SellOutcome(md, pfs, assetMint, quantity, seller, minPrice) ==
  IF ~Has(md, assetMint) THEN "ASSET_NOT_FOUND"
  ELSE IF minPrice # 0 /\ md[assetMint].currentPrice < minPrice THEN "PRICE_TOO_LOW"
  ELSE IF ~HoldsAsset(pfs, seller, assetMint)
          \/ Position(pfs, seller, assetMint) < quantity THEN "INSUFFICIENT_TOKENS"
  ELSE "OK"

Traded(md, pfs, code) == [md |-> md, pfs |-> pfs, code |-> code]

\* mutant: the buyer's portfolio record is created before the checks
BuyTokensCall_PortfolioFirst(md, pfs, assetMint, quantity, buyer, maxPrice) ==
  LET code == BuyOutcome(md, assetMint, maxPrice)
      pfs0 == IF Has(pfs, buyer) THEN pfs ELSE Put(pfs, buyer, NewPortfolio(buyer))
  IN IF code # "OK" THEN Traded(md, pfs0, code)
     ELSE LET currentPrice == md[assetMint].currentPrice
              md1 == UpdateMarketDataAfterTrade(md, assetMint, quantity, "buy",
                                                currentPrice)
          IN Traded(md1,
                    UpdateUserPortfolio(pfs0, md1, buyer, assetMint, quantity,
                                        currentPrice, "buy"),
                    "OK")

\* TradingEngine.buyTokens as a function of the engine's maps: the new
\* marketData and portfolios, and the outcome
BuyTokensCall(md, pfs, assetMint, quantity, buyer, maxPrice) ==
  LET code == BuyOutcome(md, assetMint, maxPrice)
  IN IF code # "OK" THEN Traded(md, pfs, code)
     ELSE LET currentPrice == md[assetMint].currentPrice
              md1 == UpdateMarketDataAfterTrade(md, assetMint, quantity, "buy",
                                                currentPrice)
          IN Traded(md1,
                    UpdateUserPortfolio(pfs, md1, buyer, assetMint, quantity,
                                        currentPrice, "buy"),
                    "OK")

\* mutant: the market data is updated before the holdings are checked
SellTokensCall_UpdateFirst(md, pfs, assetMint, quantity, seller, minPrice) ==
  LET code == SellOutcome(md, pfs, assetMint, quantity, seller, minPrice)
  IN IF code \in {"ASSET_NOT_FOUND", "PRICE_TOO_LOW"} THEN Traded(md, pfs, code)
     ELSE LET currentPrice == md[assetMint].currentPrice
              md1 == UpdateMarketDataAfterTrade(md, assetMint, quantity, "sell",
                                                currentPrice)
          IN IF code # "OK" THEN Traded(md1, pfs, code)
             ELSE Traded(md1,
                         UpdateUserPortfolio(pfs, md1, seller, assetMint, quantity,
                                             currentPrice, "sell"),
                         "OK")

\* TradingEngine.sellTokens, likewise
SellTokensCall(md, pfs, assetMint, quantity, seller, minPrice) ==
  LET code == SellOutcome(md, pfs, assetMint, quantity, seller, minPrice)
  IN IF code # "OK" THEN Traded(md, pfs, code)
     ELSE LET currentPrice == md[assetMint].currentPrice
              md1 == UpdateMarketDataAfterTrade(md, assetMint, quantity, "sell",
                                                currentPrice)
          IN Traded(md1,
                    UpdateUserPortfolio(pfs, md1, seller, assetMint, quantity,
                                        currentPrice, "sell"),
                    "OK")

(* --------------------------- AssetManager ----------------------------- *)
\* Map<string, CollectibleAsset> iterates in insertion order and values()
\* yields one value per key: the map is a sequence of entries.
Entry(k, a) == [key |-> k, asset |-> a]

RECURSIVE IndexOfKey(_, _, _)
IndexOfKey(map, k, i) ==
  IF i > Len(map) THEN 0
  ELSE IF map[i].key = k THEN i ELSE IndexOfKey(map, k, i + 1)

MapHas(map, k) == IndexOfKey(map, k, 1) # 0

MapGet(map, k) == map[IndexOfKey(map, k, 1)].asset

\* Map.set: an existing key keeps its place, a new key goes last
MapSet(map, k, a) ==
  LET i == IndexOfKey(map, k, 1)
  IN IF i = 0 THEN Append(map, Entry(k, a)) ELSE [map EXCEPT ![i] = Entry(k, a)]

MapDelete(map, k) == SelectSeq(map, LAMBDA e : e.key # k)

Remove(map, k) == [x \in (DOMAIN map) \ {k} |-> map[x]]

\* An asset object is stored under its own id and its own mint only, and a
\* new object takes both keys: two entries hold the same object exactly when
\* their assets agree on id and mint.
SameObject(a, b) == a.id = b.id /\ a.mint = b.mint

\* a write through one reference is seen through every other reference
Mutate(map, old, new) ==
  [i \in 1 .. Len(map) |->
     IF SameObject(map[i].asset, old) THEN Entry(map[i].key, new) ELSE map[i]]

CollectibleAsset(id, name, mint, totalSupply, currentPrice, history) ==
  [id |-> id, name |-> name, mint |-> mint, totalSupply |-> totalSupply,
   circulatingSupply |-> totalSupply, currentPrice |-> currentPrice,
   priceHistory |-> history]

InitialAsset1 ==
  CollectibleAsset(Id1, "Rolex Daytona Panda 116500LN", Mint1, TotalSupply,
                   FromInt(Price1), <<>>)

InitialAsset2 ==
  CollectibleAsset(Id2, "Rolex Daytona Panda 116500LN (Second Copy)", Mint2,
                   TotalSupply, FromInt(Price2), <<>>)

\* initialAssets.forEach: each asset is set under its id and under its mint
LoadInitialAssets(map) ==
  MapSet(MapSet(MapSet(MapSet(map, Id1, InitialAsset1), Mint1, InitialAsset1),
                Id2, InitialAsset2), Mint2, InitialAsset2)

\* name.toLowerCase().replace(/[^a-z0-9]/g, "-") on the names that occur
Slug(name) ==
  CASE name = "Rolex Daytona Panda 3" -> "rolex-daytona-panda-3"
    [] name = "Omega Speedmaster" -> "omega-speedmaster"

GenerateAssetId(name, timestamp) == Slug(name) \o "-" \o ToString(timestamp)

\* asset.id.startsWith("rolex-daytona-panda") on the ids that occur
StartsWithPanda(id) ==
  \/ id \in {Id1, Id2}
  \/ \E t \in 0 .. MaxClock : id = GenerateAssetId("Rolex Daytona Panda 3", t)

RatLess(a, b) == a.num * b.den < b.num * a.den

RatMax(a, b) == IF RatLess(a, b) THEN b ELSE a

\* one PricePoint of the sample history; draw is Math.random() in percent
SamplePoint(basePrice, totalSupply, draw) ==
  LET volatility == Rat(5, 100)
      randomChange ==
        RatMul(RatMul(RatSub(Rat(draw, 100), Rat(1, 2)), FromInt(2)), volatility)
      price == RatMul(basePrice, RatAdd(FromInt(1), randomChange))
  IN [price |-> RatMax(price, RatMul(basePrice, Rat(8, 10))),
      volume |-> RatAdd(RatMul(Rat(draw, 100), FromInt(1000)), FromInt(100)),
      marketCap |-> RatMul(price, FromInt(totalSupply))]

\* a PricePoint on record, of whole numbers
RecordedPoint(price, volume) ==
  [price |-> FromInt(price), volume |-> FromInt(volume),
   marketCap |-> FromInt(price * TotalSupply)]

\* PricePoint[]: consecutive equal points are kept as one run, so that
\* <<[point |-> p, times |-> 3]>> is the array [p, p, p]
Run(point, times) == [point |-> point, times |-> times]

\* array.push(point)
Push(history, point) ==
  IF history # <<>> /\ history[Len(history)].point = point
  THEN [history EXCEPT ![Len(history)].times = @ + 1]
  ELSE Append(history, Run(point, 1))

\* array.length
RECURSIVE Length(_)
Length(history) ==
  IF history = <<>> THEN 0 ELSE Head(history).times + Length(Tail(history))

\* array[array.length - 1]
LastPoint(history) == history[Len(history)].point

\* array.slice(-(array.length - n)): the array without its n oldest points
RECURSIVE DropOldest(_, _)
DropOldest(history, n) ==
  IF n <= 0 \/ history = <<>> THEN history
  ELSE IF Head(history).times <= n
  THEN DropOldest(Tail(history), n - Head(history).times)
  ELSE <<Run(Head(history).point, Head(history).times - n)>> \o Tail(history)

\* for (let i = 30; i >= 0; i--) history.push(...): within one call the
\* pushed points are equal, which leaves one run of SampleDays + 1 points
SampleHistory(basePrice, totalSupply, draw) ==
  <<Run(SamplePoint(basePrice, totalSupply, draw), SampleDays + 1)>>

Managed(map, hist) == [assets |-> map, priceHistory |-> hist]

\* initializePriceHistory: the loop over this.assets.values(), from entry i
RECURSIVE InitializePriceHistory(_, _, _, _)
InitializePriceHistory(map, hist, i, draw) ==
  IF i > Len(map) THEN Managed(map, hist)
  ELSE LET asset == map[i].asset
       IN IF ~StartsWithPanda(asset.id)
          THEN InitializePriceHistory(map, hist, i + 1, draw)
          ELSE LET history == SampleHistory(asset.currentPrice, asset.totalSupply, draw)
                   asset1 == [asset EXCEPT
                                !.priceHistory = history,
                                !.currentPrice = LastPoint(history).price]
               IN InitializePriceHistory(Mutate(map, asset, asset1),
                                         Put(hist, asset.mint, history), i + 1, draw)

\* AssetManager.initialize
InitializeAssets(map, hist, draw) ==
  InitializePriceHistory(LoadInitialAssets(map), hist, 1, draw)

\* Array.from(this.assets.values()).filter(...)
RECURSIVE AvailableFrom(_, _)
AvailableFrom(map, i) ==
  IF i > Len(map) THEN <<>>
  ELSE IF StartsWithPanda(map[i].asset.id)
  THEN <<map[i].asset>> \o AvailableFrom(map, i + 1)
  ELSE AvailableFrom(map, i + 1)

GetAvailableAssets(map) == AvailableFrom(map, 1)

GetAssetByMint(map, mint) == IF MapHas(map, mint) THEN MapGet(map, mint) ELSE Null

GetAssetById(map, id) == IF MapHas(map, id) THEN MapGet(map, id) ELSE Null

\* the priceHistory array of an asset data with the given number of points:
\* one oldest point, a run of equal points, one newest point
RecordedHistory(length) ==
  IF length < 2 THEN <<>>
  ELSE <<Run(RecordedPoint(90, 10), 1), Run(RecordedPoint(95, 20), length - 2),
         Run(RecordedPoint(100, 30), 1)>>

\* addAsset: the asset it stores ({...asset, id})
NewAsset(id, name, mint, history) ==
  CollectibleAsset(id, name, mint, TotalSupply, FromInt(AddedPrice), history)

AddAssetCall(map, hist, name, mint, history, timestamp) ==
  LET id == GenerateAssetId(name, timestamp)
      newAsset == NewAsset(id, name, mint, history)
  IN Managed(MapSet(MapSet(map, id, newAsset), mint, newAsset),
             Put(hist, mint, <<>>))

\* removeAsset: the maps it leaves and the value it returns
RemoveAssetCall(map, hist, assetId) ==
  IF ~MapHas(map, assetId) THEN [assets |-> map, priceHistory |-> hist, code |-> "FALSE"]
  ELSE LET asset == MapGet(map, assetId)
       IN [assets |-> MapDelete(MapDelete(map, assetId), asset.mint),
           priceHistory |-> Remove(hist, asset.mint), code |-> "OK"]

\* mutant: the history is never trimmed
UpdateAssetPriceCall_NoLimit(map, hist, assetMint, newPrice) ==
  IF ~MapHas(map, assetMint) THEN Managed(map, hist)
  ELSE LET asset == MapGet(map, assetMint)
           newPricePoint ==
             [price |-> FromInt(newPrice), volume |-> FromInt(0),
              marketCap |-> FromInt(newPrice * asset.totalSupply)]
           pushed == Push(asset.priceHistory, newPricePoint)
           asset1 == [asset EXCEPT !.priceHistory = pushed,
                                   !.currentPrice = FromInt(newPrice)]
       IN Managed(Mutate(map, asset, asset1), Put(hist, assetMint, pushed))

\* updateAssetPrice: the maps it leaves
UpdateAssetPriceCall(map, hist, assetMint, newPrice) ==
  IF ~MapHas(map, assetMint) THEN Managed(map, hist)
  ELSE LET asset == MapGet(map, assetMint)
           newPricePoint ==
             [price |-> FromInt(newPrice), volume |-> FromInt(0),
              marketCap |-> FromInt(newPrice * asset.totalSupply)]
           pushed == Push(asset.priceHistory, newPricePoint)
           kept == IF Length(pushed) > RetentionLimit
                   THEN DropOldest(pushed, Length(pushed) - RetentionLimit)
                   ELSE pushed
           asset1 == [asset EXCEPT !.priceHistory = kept,
                                   !.currentPrice = FromInt(newPrice)]
       IN Managed(Mutate(map, asset, asset1), Put(hist, assetMint, kept))

\* the points of a history that updateAssetPrice has pushed (volume: 0)
RECURSIVE Updates(_)
Updates(history) ==
  IF history = <<>> THEN 0
  ELSE (IF Head(history).point.volume = FromInt(0) THEN Head(history).times ELSE 0)
       + Updates(Tail(history))

UpdateAssetPrice(assetMint, newPrice) ==
  LET r == UpdateAssetPriceCall(assets, priceHistory, assetMint, newPrice)
  IN /\ MapHas(assets, assetMint) =>
          Updates(MapGet(assets, assetMint).priceHistory) < MaxUpdates
     /\ assets' = r.assets
     /\ priceHistory' = r.priceHistory
     /\ lastResult' = Result("updateAssetPrice", "OK", assetMint)
     /\ UNCHANGED <<engineVars, redemptionRequests, wallet, nTrades, now, calls, platforms>>

\* the assets on record that addAsset has stored
AddedIds(map) ==
  {map[i].asset.id : i \in 1 .. Len(map)} \ {Id1, Id2}

AddAsset(name, mint, length) ==
  LET r == AddAssetCall(assets, priceHistory, name, mint, RecordedHistory(length),
                        now)
  IN /\ Cardinality(AddedIds(assets)) < MaxAdded
     /\ assets' = r.assets
     /\ priceHistory' = r.priceHistory
     /\ lastResult' = Result("addAsset", "OK", GenerateAssetId(name, now))
     /\ UNCHANGED <<engineVars, redemptionRequests, wallet, nTrades, now, calls, platforms>>

RemoveAsset(assetId) ==
  LET r == RemoveAssetCall(assets, priceHistory, assetId)
  IN /\ assets' = r.assets
     /\ priceHistory' = r.priceHistory
     /\ lastResult' = Result("removeAsset", r.code, assetId)
     /\ UNCHANGED <<engineVars, redemptionRequests, wallet, nTrades, now, calls, platforms>>

\* Date.now() advances between calls
Tick ==
  /\ now < MaxClock
  /\ now' = now + 1
  /\ UNCHANGED <<engineVars, redemptionRequests, wallet, lastResult, nTrades,
                 assets, priceHistory, calls, platforms>>

(* ------------------------------ Wallet -------------------------------- *)
IsConnected == wallet.connected /\ wallet.publicKey # "null"

Connect(pk) ==
  /\ wallet' = [connected |-> TRUE, publicKey |-> pk]
  /\ lastResult' = Result("connect", "OK", pk)
  /\ UNCHANGED <<engineVars, redemptionRequests, nTrades, assetVars, calls, platforms>>

Disconnect ==
  /\ wallet' = [connected |-> FALSE, publicKey |-> "null"]
  /\ lastResult' = Result("disconnect", "OK", "")
  /\ UNCHANGED <<engineVars, redemptionRequests, nTrades, assetVars, calls, platforms>>

(* ----------------------------- CollectFi ------------------------------ *)
\* CollectFi.initialize: the managers' initialize methods (the vault's loads
\* reference records only); draw is what Math.random() returns during the call
Initialize(draw) ==
  LET r == InitializeAssets(assets, priceHistory, draw)
  IN /\ marketData' = InitializeMarketData(marketData)
     /\ assets' = r.assets
     /\ priceHistory' = r.priceHistory
     /\ lastResult' = Result("initialize", "OK", "")
     /\ UNCHANGED <<orders, portfolios, redemptionRequests, wallet, nTrades, now, calls, platforms>>

\* one market order through the facade; an executed trade counts against
\* MaxTrades
TradeStep(op, assetMint, call) ==
  /\ lastResult' = Result(op, call.code, assetMint)
  /\ call.code = "OK" => nTrades < MaxTrades
  /\ marketData' = call.md
  /\ portfolios' = call.pfs
  /\ nTrades' = IF call.code = "OK" THEN nTrades + 1 ELSE nTrades

NotConnected == Traded(marketData, portfolios, "WALLET_NOT_CONNECTED")

BuyTokens(assetMint, quantity, maxPrice) ==
  /\ TradeStep("buyTokens", assetMint,
               IF ~IsConnected THEN NotConnected
               ELSE BuyTokensCall(marketData, portfolios, assetMint, quantity,
                                  wallet.publicKey, maxPrice))
  /\ UNCHANGED <<orders, redemptionRequests, wallet, assetVars, calls, platforms>>

SellTokens(assetMint, quantity, minPrice) ==
  /\ TradeStep("sellTokens", assetMint,
               IF ~IsConnected THEN NotConnected
               ELSE SellTokensCall(marketData, portfolios, assetMint, quantity,
                                   wallet.publicKey, minPrice))
  /\ UNCHANGED <<orders, redemptionRequests, wallet, assetVars, calls, platforms>>

\* mutant: the status check is missing
CancelOutcome_NoStatusCheck(ords, orderId, user) ==
  IF ~Has(ords, orderId) THEN "FALSE"
  ELSE IF ords[orderId].userId # user THEN "UNAUTHORIZED"
  ELSE "OK"

\* mutant: the ownership check is missing
CancelOutcome_NoOwnerCheck(ords, orderId, user) ==
  IF ~Has(ords, orderId) THEN "FALSE"
  ELSE IF ords[orderId].status # "pending" THEN "ORDER_NOT_CANCELLABLE"
  ELSE "OK"

\* the outcome of TradingEngine.cancelOrder: "OK" (returns true), "FALSE"
\* (returns false) or the code of the error thrown
CancelOutcome(ords, orderId, user) ==
  IF ~Has(ords, orderId) THEN "FALSE"
  ELSE IF ords[orderId].userId # user THEN "UNAUTHORIZED"
  ELSE IF ords[orderId].status # "pending" THEN "ORDER_NOT_CANCELLABLE"
  ELSE "OK"

\* TradingEngine.placeLimitOrder: the order it stores
NewOrder(orderId, user, assetMint, side, quantity, price) ==
  [id |-> orderId, userId |-> user, assetMint |-> assetMint, type |-> "limit",
   side |-> IF side = "buy" THEN "buy" ELSE "sell", quantity |-> quantity,
   price |-> price, status |-> "pending"]

PlaceLimitOrder(assetMint, side, quantity, price) ==
  LET orderId == OrderId(Cardinality(DOMAIN orders) + 1)
  IN IF ~IsConnected
     THEN /\ lastResult' = Result("placeLimitOrder", "WALLET_NOT_CONNECTED", assetMint)
          /\ UNCHANGED <<engineVars, redemptionRequests, wallet, nTrades, assetVars, calls, platforms>>
     ELSE /\ Cardinality(DOMAIN orders) < MaxOrders
          /\ orders' = Put(orders, orderId,
                           NewOrder(orderId, wallet.publicKey, assetMint, side,
                                    quantity, price))
          /\ lastResult' = Result("placeLimitOrder", "OK", orderId)
          /\ UNCHANGED <<portfolios, marketData, redemptionRequests, wallet, nTrades, assetVars, calls, platforms>>

CancelOrder(orderId) ==
  LET code == IF ~IsConnected THEN "WALLET_NOT_CONNECTED"
              ELSE CancelOutcome(orders, orderId, wallet.publicKey)
  IN /\ lastResult' = Result("cancelOrder", code, orderId)
     /\ orders' = IF code = "OK"
                  THEN Put(orders, orderId, [orders[orderId] EXCEPT !.status = "cancelled"])
                  ELSE orders
     /\ UNCHANGED <<portfolios, marketData, redemptionRequests, wallet, nTrades, assetVars, calls, platforms>>

\* the response code of DELETE /orders/:orderId for an outcome of cancelOrder
DeleteOrderRoute(code) ==
  IF code = "OK" THEN "OK"
  ELSE IF code = "FALSE" THEN "ORDER_NOT_FOUND"
  ELSE "ORDER_CANCELLATION_FAILED"

(* --------------------------- VaultManager ----------------------------- *)
\* VaultManager.requestRedemption: the request it stores
NewRedemptionRequest(requestId, user, assetMint) ==
  [id |-> requestId, userId |-> user, assetMint |-> assetMint,
   tokenQuantity |-> TokenQuantity, status |-> "pending",
   trackingNumber |-> "", processed |-> FALSE]

\* the outcome of CollectFi.requestRedemption once the wallet is connected
RedemptionOutcome(pfs, user, assetMint) ==
  IF ~HoldsAsset(pfs, user, assetMint)
     \/ Position(pfs, user, assetMint) < RedemptionThreshold
  THEN "INSUFFICIENT_TOKENS_FOR_REDEMPTION"
  ELSE "OK"

\* the assignments of updateRedemptionStatus to an existing request
SetStatus(request, status, trackingNumber) ==
  [request EXCEPT
     !.status = status,
     !.trackingNumber = IF status = "shipped" /\ trackingNumber # ""
                        THEN trackingNumber ELSE @,
     !.processed = IF status = "processing" THEN TRUE ELSE @]

Returned(rr, code) == [rr |-> rr, code |-> code]

\* Each method as a function of the map: the new map and the outcome, "OK"
\* (returns true), "FALSE" (returns false) or the code of the error thrown.
UpdateRedemptionStatusCall(rr, requestId, status, trackingNumber) ==
  IF ~Has(rr, requestId) THEN Returned(rr, "FALSE")
  ELSE Returned(Put(rr, requestId, SetStatus(rr[requestId], status, trackingNumber)),
                "OK")

ProcessRedemptionCall(rr, requestId) ==
  IF ~Has(rr, requestId) THEN Returned(rr, "FALSE")
  ELSE IF rr[requestId].status # "pending"
  THEN Returned(rr, "INVALID_REDEMPTION_STATUS")
  ELSE Returned(UpdateRedemptionStatusCall(rr, requestId, "processing", "").rr, "OK")

ShipRedemptionCall(rr, requestId, trackingNumber) ==
  IF ~Has(rr, requestId) THEN Returned(rr, "FALSE")
  ELSE IF rr[requestId].status # "processing"
  THEN Returned(rr, "INVALID_REDEMPTION_STATUS")
  ELSE Returned(UpdateRedemptionStatusCall(rr, requestId, "shipped",
                                           trackingNumber).rr, "OK")

MarkRedemptionDeliveredCall(rr, requestId) ==
  IF ~Has(rr, requestId) THEN Returned(rr, "FALSE")
  ELSE IF rr[requestId].status # "shipped"
  THEN Returned(rr, "INVALID_REDEMPTION_STATUS")
  ELSE Returned(UpdateRedemptionStatusCall(rr, requestId, "delivered", "").rr, "OK")

\* mutant: the ownership check is missing
CancelRedemptionCall_NoOwnerCheck(rr, requestId, userId) ==
  IF ~Has(rr, requestId) THEN Returned(rr, "FALSE")
  ELSE IF rr[requestId].status # "pending"
  THEN Returned(rr, "REDEMPTION_NOT_CANCELLABLE")
  ELSE Returned(UpdateRedemptionStatusCall(rr, requestId, "cancelled", "").rr, "OK")

CancelRedemptionCall(rr, requestId, userId) ==
  IF ~Has(rr, requestId) THEN Returned(rr, "FALSE")
  ELSE IF rr[requestId].userId # userId THEN Returned(rr, "UNAUTHORIZED")
  ELSE IF rr[requestId].status # "pending"
  THEN Returned(rr, "REDEMPTION_NOT_CANCELLABLE")
  ELSE Returned(UpdateRedemptionStatusCall(rr, requestId, "cancelled", "").rr, "OK")

\* PUT /redemption/:requestId/status, for a caller with admin permissions
PutStatusRouteCall(rr, requestId, status, trackingNumber) ==
  IF status \notin {"processing", "shipped", "delivered", "cancelled"}
  THEN Returned(rr, "INVALID_STATUS")
  ELSE IF status = "shipped" /\ trackingNumber # ""
  THEN ShipRedemptionCall(rr, requestId, trackingNumber)
  ELSE IF status = "delivered"
  THEN MarkRedemptionDeliveredCall(rr, requestId)
  ELSE UpdateRedemptionStatusCall(rr, requestId, status, "")

VaultStep(op, requestId, userId, call) ==
  /\ redemptionRequests' = call.rr
  /\ lastResult' = [Result(op, call.code, requestId) EXCEPT !.by = userId]

\* mutant: the facade does not look at the wallet
RequestRedemption_NoWalletCheck(assetMint) ==
  LET code == RedemptionOutcome(portfolios, wallet.publicKey, assetMint)
      requestId == RequestId(Cardinality(DOMAIN redemptionRequests) + 1)
  IN /\ lastResult' = Result("requestRedemption", code, assetMint)
     /\ IF code = "OK"
        THEN /\ Cardinality(DOMAIN redemptionRequests) < MaxRepeats
             /\ redemptionRequests' =
                  Put(redemptionRequests, requestId,
                      NewRedemptionRequest(requestId, wallet.publicKey, assetMint))
        ELSE UNCHANGED redemptionRequests
     /\ UNCHANGED <<engineVars, wallet, nTrades, assetVars, calls, platforms>>

RequestRedemption(assetMint) ==
  LET code == IF ~IsConnected THEN "WALLET_NOT_CONNECTED"
              ELSE RedemptionOutcome(portfolios, wallet.publicKey, assetMint)
      requestId == RequestId(Cardinality(DOMAIN redemptionRequests) + 1)
  IN /\ lastResult' = Result("requestRedemption", code, assetMint)
     /\ IF code = "OK"
        THEN /\ Cardinality(DOMAIN redemptionRequests) < MaxRepeats
             /\ redemptionRequests' =
                  Put(redemptionRequests, requestId,
                      NewRedemptionRequest(requestId, wallet.publicKey, assetMint))
        ELSE UNCHANGED redemptionRequests
     /\ UNCHANGED <<engineVars, wallet, nTrades, assetVars, calls, platforms>>

UpdateRedemptionStatus(requestId, status, trackingNumber) ==
  /\ VaultStep("updateRedemptionStatus", requestId, "",
               UpdateRedemptionStatusCall(redemptionRequests, requestId, status,
                                          trackingNumber))
  /\ UNCHANGED <<engineVars, wallet, nTrades, assetVars, calls, platforms>>

ProcessRedemption(requestId) ==
  /\ VaultStep("processRedemption", requestId, "",
               ProcessRedemptionCall(redemptionRequests, requestId))
  /\ UNCHANGED <<engineVars, wallet, nTrades, assetVars, calls, platforms>>

ShipRedemption(requestId, trackingNumber) ==
  /\ VaultStep("shipRedemption", requestId, "",
               ShipRedemptionCall(redemptionRequests, requestId, trackingNumber))
  /\ UNCHANGED <<engineVars, wallet, nTrades, assetVars, calls, platforms>>

MarkRedemptionDelivered(requestId) ==
  /\ VaultStep("markRedemptionDelivered", requestId, "",
               MarkRedemptionDeliveredCall(redemptionRequests, requestId))
  /\ UNCHANGED <<engineVars, wallet, nTrades, assetVars, calls, platforms>>

CancelRedemption(requestId, userId) ==
  /\ VaultStep("cancelRedemption", requestId, userId,
               CancelRedemptionCall(redemptionRequests, requestId, userId))
  /\ UNCHANGED <<engineVars, wallet, nTrades, assetVars, calls, platforms>>

PutStatusRoute(requestId, status, trackingNumber) ==
  /\ VaultStep("PUT /redemption/status", requestId, "",
               PutStatusRouteCall(redemptionRequests, requestId, status,
                                  trackingNumber))
  /\ UNCHANGED <<engineVars, wallet, nTrades, assetVars, calls, platforms>>

(* ------------------------- calls in flight ---------------------------- *)
\* A call in flight: the method, its arguments, the account it acts for, the
\* values its body holds in local variables across an await (price,
\* hadPortfolio) and where it stands: "idle" (not made), "check" and "update"
\* (sellTokens suspended at its first and second await), "settled" (the body
\* has returned or thrown, code) and "returned" (the caller has the result).
IdleCall ==
  [op |-> "", pc |-> "idle", arg |-> "", quantity |-> 0, user |-> "",
   price |-> 0, hadPortfolio |-> FALSE, code |-> ""]

NewCall(op, arg, quantity, user) ==
  [IdleCall EXCEPT !.op = op, !.arg = arg, !.quantity = quantity, !.user = user]

Settled(call, code) == [call EXCEPT !.pc = "settled", !.code = code]

NoCallYet == \A c \in CallIds : calls[c].pc = "idle"

\* the calls are numbered in the order in which they are made
IsNextCall(c) ==
  /\ calls[c].pc = "idle"
  /\ \A d \in CallIds : d < c => calls[d].pc # "idle"

\* CollectFi.sellTokens and TradingEngine.sellTokens up to
\* `await this.getUserPortfolio(...)`
SellTokensBegin(c, assetMint, quantity, minPrice) ==
  LET call == NewCall("sellTokens", assetMint, quantity, wallet.publicKey)
  IN /\ IsNextCall(c)
     /\ calls' = [calls EXCEPT ![c] =
          IF ~IsConnected THEN Settled(call, "WALLET_NOT_CONNECTED")
          ELSE IF ~Has(marketData, assetMint) THEN Settled(call, "ASSET_NOT_FOUND")
          ELSE IF minPrice # 0 /\ marketData[assetMint].currentPrice < minPrice
          THEN Settled(call, "PRICE_TOO_LOW")
          ELSE [call EXCEPT !.pc = "check",
                            !.price = marketData[assetMint].currentPrice,
                            !.hadPortfolio = Has(portfolios, wallet.publicKey)]]
     /\ UNCHANGED <<engineVars, redemptionRequests, wallet, lastResult, nTrades,
                    assetVars, platforms>>

\* sellTokens from the holdings check to `await updateMarketDataAfterTrade`
SellTokensCheck(c) ==
  LET call == calls[c]
      enough == /\ call.hadPortfolio
                /\ HoldsAsset(portfolios, call.user, call.arg)
                /\ Position(portfolios, call.user, call.arg) >= call.quantity
  IN /\ call.pc = "check"
     /\ calls' = [calls EXCEPT ![c] =
          IF enough THEN [call EXCEPT !.pc = "update"]
          ELSE Settled(call, "INSUFFICIENT_TOKENS")]
     /\ marketData' =
          IF enough
          THEN UpdateMarketDataAfterTrade(marketData, call.arg, call.quantity,
                                          "sell", call.price)
          ELSE marketData
     /\ UNCHANGED <<orders, portfolios, redemptionRequests, wallet, lastResult,
                    nTrades, assetVars, platforms>>

\* sellTokens from `await this.updateUserPortfolio(...)` to its return
SellTokensUpdate(c) ==
  LET call == calls[c]
  IN /\ call.pc = "update"
     /\ portfolios' = UpdateUserPortfolio(portfolios, marketData, call.user,
                                          call.arg, call.quantity, call.price, "sell")
     /\ calls' = [calls EXCEPT ![c] = Settled(call, "OK")]
     /\ nTrades' = nTrades + 1
     /\ UNCHANGED <<orders, marketData, redemptionRequests, wallet, lastResult,
                    assetVars, platforms>>

\* CollectFi.cancelOrder and TradingEngine.cancelOrder: the body has no await
CancelOrderBegin(c, orderId) ==
  LET call == NewCall("cancelOrder", orderId, 0, wallet.publicKey)
      code == IF ~IsConnected THEN "WALLET_NOT_CONNECTED"
              ELSE CancelOutcome(orders, orderId, wallet.publicKey)
  IN /\ IsNextCall(c)
     /\ calls' = [calls EXCEPT ![c] = Settled(call, code)]
     /\ orders' = IF code = "OK"
                  THEN Put(orders, orderId, [orders[orderId] EXCEPT !.status = "cancelled"])
                  ELSE orders
     /\ UNCHANGED <<portfolios, marketData, redemptionRequests, wallet, lastResult,
                    nTrades, assetVars, platforms>>

\* the caller's `await` resumes with the value returned or the error thrown
Return(c) ==
  /\ calls[c].pc = "settled"
  /\ calls' = [calls EXCEPT ![c].pc = "returned"]
  /\ lastResult' = Result(calls[c].op, calls[c].code, calls[c].arg)
  /\ UNCHANGED <<engineVars, redemptionRequests, wallet, nTrades, assetVars, platforms>>

(* ------------------------------ routes -------------------------------- *)
\* The state behind the CollectFi instance of a route module: the maps of its
\* three managers and its wallet; loaded once its initialize() has run.
NewPlatform ==
  [loaded |-> FALSE, assets |-> <<>>, priceHistory |-> EmptyMap,
   marketData |-> EmptyMap, portfolios |-> EmptyMap, orders |-> EmptyMap,
   redemptionRequests |-> EmptyMap,
   wallet |-> [connected |-> FALSE, publicKey |-> "null"]]

\* wallet.isConnected() on the wallet of an instance
WalletConnected(p) == p.wallet.connected /\ p.wallet.publicKey # "null"

RouteStep(route, code, arg) ==
  /\ lastResult' = Result(route, code, arg)
  /\ UNCHANGED <<engineVars, redemptionRequests, wallet, nTrades, assetVars, calls>>

\* `collectFi.initialize().catch(console.error)` of a route module
LoadRoutes(g, draw) ==
  LET p == platforms[g]
      r == InitializeAssets(p.assets, p.priceHistory, draw)
  IN /\ ~p.loaded
     /\ platforms' = [platforms EXCEPT ![g] =
          [p EXCEPT !.loaded = TRUE, !.assets = r.assets,
                    !.priceHistory = r.priceHistory,
                    !.marketData = InitializeMarketData(p.marketData)]]
     /\ RouteStep("initialize", "OK", g)

\* POST /api/assets, for a caller with admin permissions
PostAssets(name, mint) ==
  LET p == platforms["assets"]
      r == AddAssetCall(p.assets, p.priceHistory, name, mint, RecordedHistory(0), now)
  IN /\ Cardinality(AddedIds(p.assets)) < MaxAdded
     /\ platforms' = [platforms EXCEPT !["assets"] =
          [p EXCEPT !.assets = r.assets, !.priceHistory = r.priceHistory]]
     /\ RouteStep("POST /api/assets", "OK", GenerateAssetId(name, now))

\* POST /api/trading/place-order with type "market" and side "buy"
PostPlaceOrder(assetMint, quantity, price) ==
  LET p == platforms["trading"]
      call == IF ~WalletConnected(p)
              THEN Traded(p.marketData, p.portfolios, "WALLET_NOT_CONNECTED")
              ELSE BuyTokensCall(p.marketData, p.portfolios, assetMint, quantity,
                                 p.wallet.publicKey, 0)
  IN IF quantity = 0 \/ price = 0
     THEN /\ RouteStep("POST /place-order", "MISSING_REQUIRED_FIELDS", assetMint)
          /\ UNCHANGED platforms
     ELSE /\ platforms' = [platforms EXCEPT !["trading"] =
               [p EXCEPT !.marketData = call.md, !.portfolios = call.pfs]]
          /\ RouteStep("POST /place-order",
                       IF call.code = "OK" THEN "OK" ELSE "ORDER_PLACEMENT_FAILED",
                       assetMint)

\* GET /api/portfolio/:walletAddress
GetPortfolio(walletAddress) ==
  /\ RouteStep("GET /portfolio",
               IF GetUserPortfolio(platforms["portfolio"].portfolios, walletAddress) = Null
               THEN "PORTFOLIO_NOT_FOUND" ELSE "OK",
               walletAddress)
  /\ UNCHANGED platforms

\* POST /api/vault/redemption/request
PostRedemptionRequest(assetMint) ==
  LET p == platforms["vault"]
      code == IF ~WalletConnected(p) THEN "WALLET_NOT_CONNECTED"
              ELSE RedemptionOutcome(p.portfolios, p.wallet.publicKey, assetMint)
      requestId == RequestId(Cardinality(DOMAIN p.redemptionRequests) + 1)
  IN /\ platforms' = [platforms EXCEPT !["vault"] =
          IF code = "OK"
          THEN [p EXCEPT !.redemptionRequests =
                  Put(@, requestId,
                      NewRedemptionRequest(requestId, p.wallet.publicKey, assetMint))]
          ELSE p]
     /\ RouteStep("POST /redemption/request",
                  IF code = "OK" THEN "OK" ELSE "REDEMPTION_REQUEST_FAILED",
                  assetMint)

(* --------------------------- specifications --------------------------- *)
Init ==
  /\ orders = EmptyMap
  /\ portfolios = EmptyMap
  /\ marketData = EmptyMap
  /\ redemptionRequests = EmptyMap
  /\ wallet = [connected |-> FALSE, publicKey |-> "null"]
  /\ lastResult = Result("new", "OK", "")
  /\ nTrades = 0
  /\ assets = <<>>
  /\ priceHistory = EmptyMap
  /\ now = 0
  /\ calls = [c \in CallIds |-> IdleCall]
  /\ platforms = [g \in RouteGroups |-> NewPlatform]

\* market trading through the facade, over the full range of quantities
Next ==
  \/ \E d \in SampleDraw : Initialize(d)
  \/ \E pk \in Accounts : Connect(pk)
  \/ Disconnect
  \/ \E m \in MintArgs, q \in Quantities, p \in PriceLimits : BuyTokens(m, q, p)
  \/ \E m \in MintArgs, q \in Quantities, p \in PriceLimits : SellTokens(m, q, p)

Spec == Init /\ [][Next]_vars

\* limit orders beside market trading (at most MaxOrderTrades executed trades;
\* an asset is unknown to the engine until initialize)
NextOrders ==
  \/ \E d \in SampleDraw : Initialize(d)
  \/ \E pk \in Accounts : Connect(pk)
  \/ Disconnect
  \/ \E m \in KnownMint, q \in UnitQuantities, p \in OrderPriceLimits :
        BuyTokens(m, q, p) /\ nTrades' <= MaxOrderTrades
  \/ \E m \in KnownMint, q \in UnitQuantities, p \in OrderPriceLimits :
        SellTokens(m, q, p) /\ nTrades' <= MaxOrderTrades
  \/ \E m \in KnownMint, s \in OrderSides, q \in OrderQuantities,
        p \in OrderPrices : PlaceLimitOrder(m, s, q, p)
  \/ \E id \in OrderIds : CancelOrder(id)

SpecOrders == Init /\ [][NextOrders]_vars

\* redemption beside market trading (at most MaxRequests requests)
NextVault ==
  \/ \E d \in SampleDraw : Initialize(d)
  \/ \E pk \in Accounts : Connect(pk)
  \/ Disconnect
  \/ \E m \in KnownMint, q \in LotQuantities, p \in NoLimit : BuyTokens(m, q, p)
  \/ \E m \in KnownMint, q \in LotQuantities, p \in NoLimit : SellTokens(m, q, p)
  \/ \E m \in KnownMint :
        RequestRedemption(m) /\ Cardinality(DOMAIN redemptionRequests') <= MaxRequests
  \/ \E id \in RequestIds, st \in RedemptionStatus, t \in TrackingArgs :
        UpdateRedemptionStatus(id, st, t)
  \/ \E id \in RequestIds : ProcessRedemption(id)
  \/ \E id \in RequestIds, t \in TrackingArgs : ShipRedemption(id, t)
  \/ \E id \in RequestIds : MarkRedemptionDelivered(id)
  \/ \E id \in RequestIds, u \in Accounts : CancelRedemption(id, u)
  \/ \E id \in RequestIds, st \in RedemptionStatus, t \in TrackingArgs :
        PutStatusRoute(id, st, t)

SpecVault == Init /\ [][NextVault]_vars

\* cancellation of redemption requests in every status, by every account
NextRedemption ==
  \/ \E d \in SampleDraw : Initialize(d)
  \/ \E pk \in Accounts : Connect(pk)
  \/ \E m \in KnownMint, q \in WholeSupply, p \in NoLimit : BuyTokens(m, q, p)
  \/ \E m \in KnownMint :
        RequestRedemption(m) /\ Cardinality(DOMAIN redemptionRequests') <= MaxRequests
  \/ \E id \in RequestIds, st \in RedemptionStatus, t \in NoTracking :
        UpdateRedemptionStatus(id, st, t)
  \/ \E id \in RequestIds, u \in Accounts : CancelRedemption(id, u)

SpecRedemption == Init /\ [][NextRedemption]_vars

\* every operation that the facade guards with the wallet, with the wallet
\* connected and not (at most MaxOrderTrades executed trades)
NextWallet ==
  \/ \E d \in SampleDraw : Initialize(d)
  \/ \E pk \in Accounts : Connect(pk)
  \/ Disconnect
  \/ \E m \in KnownMint, q \in WholeSupply, p \in NoLimit :
        BuyTokens(m, q, p) /\ nTrades' <= MaxOrderTrades
  \/ \E m \in KnownMint, q \in WholeSupply, p \in NoLimit :
        SellTokens(m, q, p) /\ nTrades' <= MaxOrderTrades
  \/ \E m \in KnownMint, q \in OrderQuantities, p \in OrderPrices :
        PlaceLimitOrder(m, "buy", q, p)
  \/ \E id \in OrderIds : CancelOrder(id)
  \/ \E m \in KnownMint :
        RequestRedemption(m) /\ Cardinality(DOMAIN redemptionRequests') <= MaxRequests

SpecWallet == Init /\ [][NextWallet]_vars

\* repeated redemption requests of the accounts that hold the whole supply
NextRequests ==
  \/ \E d \in SampleDraw : Initialize(d)
  \/ \E pk \in Accounts : Connect(pk)
  \/ Disconnect
  \/ \E m \in KnownMint, q \in WholeSupply, p \in NoLimit : BuyTokens(m, q, p)
  \/ \E m \in KnownMint : RequestRedemption(m)

SpecRequests == Init /\ [][NextRequests]_vars

\* requests to the route modules of one server process
NextRoutes ==
  \/ \E g \in RouteGroups, d \in SampleDraw : LoadRoutes(g, d)
  \/ \E n \in AssetNames, m \in AddedMints : PostAssets(n, m)
  \/ \E m \in AnyMint, q \in AnyQuantities, p \in AnyPrices : PostPlaceOrder(m, q, p)
  \/ \E w \in Accounts : GetPortfolio(w)
  \/ \E m \in KnownMint : PostRedemptionRequest(m)

SpecRoutes == Init /\ [][NextRoutes]_vars

\* limit orders over the full range of quantities and prices
NextPlacement ==
  \/ \E d \in SampleDraw : Initialize(d)
  \/ \E pk \in Accounts : Connect(pk)
  \/ Disconnect
  \/ \E m \in AnyMint, s \in OrderSides, q \in AnyQuantities, p \in AnyPrices :
        PlaceLimitOrder(m, s, q, p)

SpecPlacement == Init /\ [][NextPlacement]_vars

\* removeAsset: the assetId argument, an id or a mint, known or not
AssetKeys ==
  {Id1, Id2, Mint1, UnknownId} \cup AddedMints
    \cup {GenerateAssetId(n, t) : n \in AssetNames, t \in 0 .. MaxClock}

\* updateAssetPrice: the assetMint and newPrice arguments
PricedKeys == {Mint1, UnknownMint}
NewPrices == {190}

\* asset administration
NextAssets ==
  \/ \E d \in SampleDraw : Initialize(d)
  \/ \E n \in AssetNames, m \in AddedMints : AddAsset(n, m, 0)
  \/ \E k \in AssetKeys : RemoveAsset(k)
  \/ \E k \in PricedKeys, p \in NewPrices : UpdateAssetPrice(k, p)
  \/ Tick

SpecAssets == Init /\ [][NextAssets]_vars


\* price updates on histories around the retention limit
NextRetention ==
  \/ \E d \in SampleDraw : Initialize(d)
  \/ \E m \in AddedMints, h \in HistoryLengths :
        AddAsset("Omega Speedmaster", m, h)
  \/ \E k \in {Mint1} \cup AddedMints, p \in NewPrices : UpdateAssetPrice(k, p)

SpecRetention == Init /\ [][NextRetention]_vars

\* sellTokens calls in flight together, after the accounts have bought
\* tokens one call at a time
NextConcurrent ==
  \/ NoCallYet /\ \E d \in SampleDraw : Initialize(d)
  \/ NoCallYet /\ \E pk \in Accounts : Connect(pk)
  \/ NoCallYet /\ \E m \in KnownMint, q \in UnitQuantities, p \in NoLimit :
        BuyTokens(m, q, p)
  \/ \E c \in CallIds, m \in KnownMint, q \in UnitQuantities, p \in PriceLimits :
        SellTokensBegin(c, m, q, p)
  \/ \E c \in CallIds : SellTokensCheck(c)
  \/ \E c \in CallIds : SellTokensUpdate(c)
  \/ \E c \in CallIds : Return(c)

SpecConcurrent == Init /\ [][NextConcurrent]_vars

\* cancelOrder calls in flight together, after the accounts have placed
\* orders one call at a time
NextCancels ==
  \/ \E pk \in Accounts : Connect(pk)
  \/ NoCallYet /\ \E m \in KnownMint, s \in OrderSides, q \in OrderQuantities,
        p \in OrderPrices : PlaceLimitOrder(m, s, q, p)
  \/ \E c \in CallIds, id \in OrderIds : CancelOrderBegin(c, id)
  \/ \E c \in CallIds : Return(c)

SpecCancels == Init /\ [][NextCancels]_vars

(* ------------------------------ claims -------------------------------- *)
Caller == wallet.publicKey

RECURSIVE SumOver(_, _, _)
SumOver(pfs, accounts, assetMint) ==
  IF accounts = {} THEN 0
  ELSE LET a == CHOOSE x \in accounts : TRUE
       IN Position(pfs, a, assetMint) + SumOver(pfs, accounts \ {a}, assetMint)

\* the tokens of an asset held by all accounts together
SumPositions(pfs, assetMint) == SumOver(pfs, Accounts, assetMint)

\* a step that called the engine's method op (the wallet was connected)
EngineCalled(op) ==
  /\ lastResult'.op = op
  /\ lastResult'.code # "WALLET_NOT_CONNECTED"

\* C1: after any sequence of buyTokens and sellTokens calls, accepted or
\* rejected, every position quantity recorded in a portfolio is >= 0.
C1_QuantityNonNegative ==
  \A w \in DOMAIN portfolios :
    \A i \in 1 .. Len(portfolios[w].assets) :
      portfolios[w].assets[i].quantity >= 0

\* a sell has just brought the caller's position to zero
C1_Witness ==
  /\ lastResult.op = "sellTokens" /\ lastResult.code = "OK"
  /\ Has(portfolios, Caller)
  /\ ~HoldsAsset(portfolios, Caller, lastResult.arg)

\* C2: requestRedemption succeeds if and only if the caller's position in the
\* asset equals the asset's total supply at call time; otherwise it fails and
\* no redemption request is created.
C2_RedemptionIffFullSupply ==
  [][EngineCalled("requestRedemption") =>
       /\ (lastResult'.code = "OK")
            <=> (Position(portfolios, Caller, lastResult'.arg) = TotalSupply)
       /\ lastResult'.code # "OK" => UNCHANGED redemptionRequests]_vars

ValidTransitions ==
  {<<"pending", "processing">>, <<"processing", "shipped">>,
   <<"shipped", "delivered">>, <<"pending", "cancelled">>}

\* C3: through every status-changing operation the status of a redemption
\* request moves only along pending -> processing -> shipped -> delivered or
\* pending -> cancelled; no other transition takes effect.
C3_StatusStateMachine ==
  [][\A id \in DOMAIN redemptionRequests :
       LET from == redemptionRequests[id].status
           to == redemptionRequests'[id].status
       IN from # to => <<from, to>> \in ValidTransitions]_vars

\* C4: while an account has a pending or processing redemption request for an
\* asset, every sell by that account on that asset is rejected and leaves the
\* position unchanged.
C4_PositionLocked ==
  [][\A id \in DOMAIN redemptionRequests :
       LET r == redemptionRequests[id]
       IN (/\ r.status \in {"pending", "processing"}
           /\ EngineCalled("sellTokens")
           /\ lastResult'.arg = r.assetMint
           /\ Caller = r.userId) =>
            /\ lastResult'.code # "OK"
            /\ Position(portfolios', r.userId, r.assetMint)
                 = Position(portfolios, r.userId, r.assetMint)]_vars

TerminalOrderStatus == {"executed", "cancelled", "failed"}

\* the cancelOrder call of this step targets a stored order that is already
\* cancelled or executed
CancelOfClosedOrder ==
  /\ EngineCalled("cancelOrder")
  /\ Has(orders, lastResult'.arg)
  /\ orders[lastResult'.arg].status \in {"cancelled", "executed"}

\* C5 as stated: cancelOrder on an already cancelled or executed order reports
\* a not-cancellable error and changes nothing.
C5_Original ==
  [][CancelOfClosedOrder =>
       /\ lastResult'.code = "ORDER_NOT_CANCELLABLE"
       /\ UNCHANGED <<orders, portfolios, marketData>>]_vars

\* C5 (amended): cancelOrder on an already cancelled or executed order reports
\* a not-cancellable error when the caller owns the order and an unauthorized
\* error when another account calls; in both cases it changes nothing,
\* however often it is repeated.
C5_ClosedOrderCancelRejected ==
  [][CancelOfClosedOrder =>
       /\ lastResult'.code =
            IF orders[lastResult'.arg].userId = Caller
            THEN "ORDER_NOT_CANCELLABLE" ELSE "UNAUTHORIZED"
       /\ UNCHANGED <<orders, portfolios, marketData>>]_vars

\* the owner's repeated cancel of a cancelled order has just been rejected
C5_Witness ==
  /\ lastResult.op = "cancelOrder"
  /\ lastResult.code = "ORDER_NOT_CANCELLABLE"
  /\ Has(orders, lastResult.arg)
  /\ orders[lastResult.arg].status = "cancelled"
  /\ orders[lastResult.arg].userId = Caller

\* C6 as stated: cancelOrder on a missing id fails with a NotFound error, and
\* on another account's order with an Unauthorized error; no order changes.
C6_Original ==
  [][EngineCalled("cancelOrder") =>
       /\ ~Has(orders, lastResult'.arg) =>
            lastResult'.code \in {"NOT_FOUND", "ORDER_NOT_FOUND"}
       /\ (Has(orders, lastResult'.arg)
           /\ orders[lastResult'.arg].userId # Caller) =>
            lastResult'.code = "UNAUTHORIZED"
       /\ (~Has(orders, lastResult'.arg)
           \/ orders[lastResult'.arg].userId # Caller) => UNCHANGED orders]_vars

\* C6 (amended): cancelOrder on a missing id raises no error and returns
\* false, which the DELETE route reports as ORDER_NOT_FOUND; on another
\* account's order it fails with UNAUTHORIZED; in both cases no order changes.
C6_MissingOrForeignOrder ==
  [][EngineCalled("cancelOrder") =>
       /\ ~Has(orders, lastResult'.arg) =>
            /\ lastResult'.code = "FALSE"
            /\ DeleteOrderRoute(lastResult'.code) = "ORDER_NOT_FOUND"
       /\ (Has(orders, lastResult'.arg)
           /\ orders[lastResult'.arg].userId # Caller) =>
            lastResult'.code = "UNAUTHORIZED"
       /\ (~Has(orders, lastResult'.arg)
           \/ orders[lastResult'.arg].userId # Caller) => UNCHANGED orders]_vars

\* another account's cancel of a pending order has just been refused
C6_Witness ==
  /\ lastResult.op = "cancelOrder"
  /\ lastResult.code = "UNAUTHORIZED"
  /\ Has(orders, lastResult.arg)
  /\ orders[lastResult.arg].status = "pending"
  /\ orders[lastResult.arg].userId # Caller

\* C7: once an order is executed, cancelled or failed no operation changes
\* it, and a pending order changes only by a successful cancel of its owner,
\* which sets its status to cancelled and nothing else.
C7_TerminalOrdersFrozen ==
  [][\A id \in DOMAIN orders :
       /\ Has(orders', id)
       /\ orders[id].status \in TerminalOrderStatus => orders'[id] = orders[id]
       /\ (orders[id].status = "pending" /\ orders'[id] # orders[id]) =>
            /\ orders'[id] = [orders[id] EXCEPT !.status = "cancelled"]
            /\ lastResult' = Result("cancelOrder", "OK", id)
            /\ Caller = orders[id].userId]_vars

\* a trade has been executed while a cancelled order is on record
C7_Witness ==
  /\ \E id \in DOMAIN orders : orders[id].status = "cancelled"
  /\ lastResult.op \in {"buyTokens", "sellTokens"}
  /\ lastResult.code = "OK"

TradeRejections ==
  {"ASSET_NOT_FOUND", "PRICE_EXCEEDED", "PRICE_TOO_LOW", "INSUFFICIENT_TOKENS"}

\* C8: a rejected buyTokens or sellTokens leaves the market data of every
\* asset, every portfolio and every order as they were.
C8_RejectedTradeChangesNothing ==
  [][(lastResult'.op \in {"buyTokens", "sellTokens"}
      /\ lastResult'.code \in TradeRejections) =>
       UNCHANGED <<marketData, portfolios, orders>>]_vars

\* a sell of more tokens than held has just been rejected, with orders and
\* holdings on record
C8_Witness ==
  /\ lastResult.op = "sellTokens"
  /\ lastResult.code = "INSUFFICIENT_TOKENS"
  /\ orders # EmptyMap
  /\ \E w \in DOMAIN portfolios : portfolios[w].assets # <<>>

\* no pending sell order rests on the asset
NoAsk(assetMint) ==
  \A id \in DOMAIN orders :
    ~(/\ orders[id].assetMint = assetMint /\ orders[id].side = "sell"
      /\ orders[id].status = "pending")

\* C9: a market buy that passes validation while no sell order rests on the
\* asset fails with an insufficient-liquidity error and does not increase the
\* buyer's position.
C9_EmptyBookBuyFails ==
  [][(/\ EngineCalled("buyTokens")
      /\ lastResult'.code \notin {"ASSET_NOT_FOUND", "PRICE_EXCEEDED"}
      /\ NoAsk(lastResult'.arg)) =>
       /\ lastResult'.code = "INSUFFICIENT_LIQUIDITY"
       /\ Position(portfolios', Caller, lastResult'.arg)
            <= Position(portfolios, Caller, lastResult'.arg)]_vars

\* C10: an executed trade moves tokens from one account to a different one in
\* the same step: the sum of all positions in the asset is unchanged and never
\* exceeds the total supply.
C10_TradeConservesSupply ==
  [][(lastResult'.op \in {"buyTokens", "sellTokens"} /\ lastResult'.code = "OK") =>
       LET m == lastResult'.arg
       IN /\ SumPositions(portfolios', m) = SumPositions(portfolios, m)
          /\ SumPositions(portfolios', m) <= TotalSupply
          /\ \E a, b \in Accounts :
               /\ a # b
               /\ Position(portfolios', a, m) - Position(portfolios, a, m)
                    = Position(portfolios, b, m) - Position(portfolios', b, m)]_vars

\* a step in which a buyTokens or sellTokens call was executed
ExecutedTrade ==
  lastResult'.op \in {"buyTokens", "sellTokens"} /\ lastResult'.code = "OK"

\* the quantity of the trade executed in this step on assetMint, read from the
\* 24h volume, which grows by quantity * price
TradedQuantity(assetMint) ==
  (marketData'[assetMint].volume24h - marketData[assetMint].volume24h)
    \div marketData'[assetMint].currentPrice

\* C11: every executed trade appends exactly one PricePoint, with the trade
\* price and the traded quantity as volume, to the price history of the traded
\* asset, and no step other than an executed trade changes a price history.
C11_TradeAppendsPricePoint ==
  [][\A m \in DOMAIN priceHistory :
       IF ExecutedTrade /\ lastResult'.arg = m
       THEN /\ Has(priceHistory', m)
            /\ priceHistory'[m] =
                 Push(priceHistory[m],
                      [price |-> FromInt(marketData'[m].currentPrice),
                       volume |-> FromInt(TradedQuantity(m)),
                       marketCap |-> LastPoint(priceHistory'[m]).marketCap])
       ELSE Has(priceHistory', m) /\ priceHistory'[m] = priceHistory[m]]_vars

\* the incoming order crosses the resting order of another account
Crosses(incoming, resting) ==
  /\ resting.status = "pending"
  /\ resting.assetMint = incoming.assetMint
  /\ resting.side # incoming.side
  /\ resting.userId # incoming.userId
  /\ incoming.quantity >= resting.quantity
  /\ IF incoming.side = "buy" THEN incoming.price >= resting.price
     ELSE incoming.price <= resting.price

\* the place of an order in the sequence of placements
OrderSeq(id) == CHOOSE n \in 1 .. MaxOrders + 1 : OrderId(n) = id

\* C12: when a newly placed limit order crosses pending orders of the
\* opposite side, the earliest placed of them is matched: it does not stay
\* pending.
C12_PriceTimePriority ==
  [][(lastResult'.op = "placeLimitOrder" /\ lastResult'.code = "OK") =>
       LET incoming == orders'[lastResult'.arg]
           crossed == {id \in DOMAIN orders : Crosses(incoming, orders[id])}
       IN \A id \in crossed :
            (\A other \in crossed : OrderSeq(id) <= OrderSeq(other)) =>
              orders'[id].status # "pending"]_vars

\* C13: a redemption request with status shipped has a tracking reference.
C13_ShippedHasTracking ==
  \A id \in DOMAIN redemptionRequests :
    redemptionRequests[id].status = "shipped" =>
      redemptionRequests[id].trackingNumber # ""

\* C14: in the step in which a redemption request becomes delivered the
\* circulating supply of its asset decreases by the total supply and the
\* requester's position in the asset becomes zero.
C14_DeliveredBurnsTokens ==
  [][\A id \in DOMAIN redemptionRequests :
       LET r == redemptionRequests[id]
       IN (r.status = "shipped" /\ redemptionRequests'[id].status = "delivered") =>
            /\ Has(marketData, r.assetMint)
            /\ marketData'[r.assetMint].circulatingSupply
                 = marketData[r.assetMint].circulatingSupply
                     - marketData[r.assetMint].totalSupply
            /\ Position(portfolios', r.userId, r.assetMint) = 0]_vars

\* C15: cancelRedemption on a stored request succeeds exactly when the caller
\* owns the request and the request is pending, and then only sets its status
\* to cancelled; a non-owner gets an unauthorized error, the owner of a
\* non-pending request a not-cancellable error, and both leave the request
\* unchanged.
C15_CancelRedemption ==
  [][(lastResult'.op = "cancelRedemption"
      /\ Has(redemptionRequests, lastResult'.arg)) =>
       LET id == lastResult'.arg
           r == redemptionRequests[id]
           owner == r.userId = lastResult'.by
       IN /\ (lastResult'.code = "OK") <=> (owner /\ r.status = "pending")
          /\ lastResult'.code = "OK" =>
               redemptionRequests' =
                 Put(redemptionRequests, id, [r EXCEPT !.status = "cancelled"])
          /\ ~owner => lastResult'.code = "UNAUTHORIZED"
          /\ (owner /\ r.status # "pending") =>
               lastResult'.code = "REDEMPTION_NOT_CANCELLABLE"
          /\ lastResult'.code # "OK" => UNCHANGED redemptionRequests]_vars

\* another user's cancel of a pending request has just been refused
C15_Witness ==
  /\ lastResult.op = "cancelRedemption"
  /\ lastResult.code = "UNAUTHORIZED"
  /\ Has(redemptionRequests, lastResult.arg)
  /\ redemptionRequests[lastResult.arg].status = "pending"
  /\ redemptionRequests[lastResult.arg].userId # lastResult.by

\* C16: every stored order has quantity > 0 and price > 0.
C16_StoredOrdersValid ==
  \A id \in DOMAIN orders : orders[id].quantity > 0 /\ orders[id].price > 0

\* the caller's entry for an asset: quantity and average cost, zero when the
\* portfolio has none
Entry0(pfs, walletAddress, assetMint) ==
  IF HoldsAsset(pfs, walletAddress, assetMint)
  THEN LET a == pfs[walletAddress].assets[FindAsset(pfs[walletAddress].assets,
                                                    assetMint)]
       IN [quantity |-> a.quantity, averagePrice |-> a.averagePrice]
  ELSE [quantity |-> 0, averagePrice |-> FromInt(0)]

\* C17: an executed buy of qty at price turns a position (oldQty, oldAvg) into
\* quantity oldQty + qty with average cost
\* (oldQty * oldAvg + qty * price) / (oldQty + qty); an executed sell of qty
\* that leaves a non-zero quantity takes qty off the quantity and leaves the
\* average cost as it was.
C17_AverageCost ==
  [][ExecutedTrade =>
       LET m == lastResult'.arg
           qty == TradedQuantity(m)
           price == marketData'[m].currentPrice
           old == Entry0(portfolios, Caller, m)
           new == Entry0(portfolios', Caller, m)
       IN IF lastResult'.op = "buyTokens"
          THEN /\ new.quantity = old.quantity + qty
               /\ old.quantity + qty # 0 =>
                    new.averagePrice =
                      Rat(old.quantity * old.averagePrice.num
                            + qty * price * old.averagePrice.den,
                          old.averagePrice.den * (old.quantity + qty))
          ELSE old.quantity - qty # 0 =>
                 /\ new.quantity = old.quantity - qty
                 /\ new.averagePrice = old.averagePrice]_vars

\* C18: getAvailableAssets returns no asset twice, and right after initialize
\* it returns exactly the two Rolex Daytona Panda assets.
C18_AvailableAssetsOnce ==
  [][LET available == GetAvailableAssets(assets')
     IN /\ \A i, j \in 1 .. Len(available) :
             i # j => ~SameObject(available[i], available[j])
        /\ lastResult'.op = "initialize" =>
             /\ Len(available) = 2
             /\ {available[i].id : i \in 1 .. Len(available)} = {Id1, Id2}]_vars

\* C19: every asset a that getAvailableAssets returns is found by
\* getAssetByMint(a.mint) with id a.id and by getAssetById(a.id) with mint
\* a.mint, and both lookups return null for an id and a mint of no asset.
C19_LookupsAgree ==
  LET available == GetAvailableAssets(assets)
  IN /\ \A i \in 1 .. Len(available) :
          LET a == available[i]
          IN /\ GetAssetByMint(assets, a.mint) # Null
             /\ GetAssetByMint(assets, a.mint).id = a.id
             /\ GetAssetById(assets, a.id) # Null
             /\ GetAssetById(assets, a.id).mint = a.mint
     /\ GetAssetByMint(assets, UnknownMint) = Null
     /\ GetAssetById(assets, UnknownId) = Null

\* C20: getUserPortfolio(w) stops returning null only in a step in which a
\* trade of w is executed; no other call creates a portfolio.
C20_PortfolioOnlyByOwnTrade ==
  [][\A w \in Accounts :
       (GetUserPortfolio(portfolios, w) = Null
        /\ GetUserPortfolio(portfolios', w) # Null) =>
         (ExecutedTrade /\ Caller = w)]_vars

\* an account without a portfolio has just had a buy rejected while another
\* account holds tokens and an order is on record
C20_Witness ==
  /\ lastResult.op = "buyTokens"
  /\ lastResult.code = "PRICE_EXCEEDED"
  /\ GetUserPortfolio(portfolios, Caller) = Null
  /\ \E w \in Accounts : GetUserPortfolio(portfolios, w) # Null
  /\ orders # EmptyMap

\* the i-th point of a price history, oldest first
RECURSIVE PointAt(_, _)
PointAt(history, i) ==
  IF i <= Head(history).times THEN Head(history).point
  ELSE PointAt(Tail(history), i - Head(history).times)

\* C21: an updateAssetPrice call on an asset leaves a price history of at most
\* 1000 points, which are the points of the history before the call followed
\* by one new point at the new price, without the oldest ones beyond 1000:
\* the retained points are unaltered and in append order.
C21_BoundedRetention ==
  [][(lastResult'.op = "updateAssetPrice" /\ MapHas(assets, lastResult'.arg)) =>
       \A k \in {lastResult'.arg} :
         \A old \in {MapGet(assets, k).priceHistory},
            new \in {MapGet(assets', k).priceHistory} :
           \A kept \in {Length(new)}, dropped \in {Length(old) + 1 - Length(new)} :
             /\ kept <= RetentionLimit
             /\ kept = IF Length(old) + 1 > RetentionLimit
                       THEN RetentionLimit ELSE Length(old) + 1
             /\ LastPoint(new).price = MapGet(assets', k).currentPrice
             /\ \A i \in 1 .. kept - 1 : PointAt(new, i) = PointAt(old, i + dropped)
             /\ priceHistory'[k] = new]_vars

\* an update has just evicted the oldest point of a full history
C21_Witness ==
  /\ lastResult.op = "updateAssetPrice"
  /\ MapHas(assets, lastResult.arg)
  /\ LET history == MapGet(assets, lastResult.arg).priceHistory
     IN /\ Length(history) = RetentionLimit
        /\ Head(history).point = RecordedPoint(95, 20)
        /\ LastPoint(history).volume = FromInt(0)

\* C22: an executed sell takes exactly its quantity off the seller's position
\* (the position is never clamped), so the sells of an account that complete,
\* whatever their interleaving, never sum to more than the account held.
C22_NoOversell ==
  [][\A c \in CallIds :
       (calls[c].pc = "update" /\ calls'[c].pc = "settled") =>
         Position(portfolios', calls[c].user, calls[c].arg)
           = Position(portfolios, calls[c].user, calls[c].arg) - calls[c].quantity]_vars

\* the cancelOrder calls of the owner of an order whose body has run
OwnerCancels(id) ==
  {c \in CallIds : /\ calls[c].op = "cancelOrder"
                    /\ calls[c].arg = id
                    /\ calls[c].user = orders[id].userId
                    /\ calls[c].pc \in {"settled", "returned"}}

\* C23: of the cancelOrder calls that the owner makes on a pending order
\* while others are in flight, exactly one returns true, every other fails
\* with ORDER_NOT_CANCELLABLE, and the order is cancelled.
C23_OneCancelWins ==
  \A id \in DOMAIN orders :
    LET won == {c \in OwnerCancels(id) : calls[c].code = "OK"}
    IN OwnerCancels(id) # {} =>
         /\ Cardinality(won) = 1
         /\ \A c \in OwnerCancels(id) \ won : calls[c].code = "ORDER_NOT_CANCELLABLE"
         /\ orders[id].status = "cancelled"

\* two cancels of the owner on one order are in flight together: one has
\* won, the other has failed, neither has returned to its caller
C23_Witness ==
  \E id \in DOMAIN orders : \E c, d \in OwnerCancels(id) :
    /\ c # d
    /\ calls[c].pc = "settled" /\ calls[d].pc = "settled"
    /\ calls[c].code = "OK" /\ calls[d].code = "ORDER_NOT_CANCELLABLE"

\* the value at current market prices of the entries with non-zero quantity
RECURSIVE MarketValue(_, _)
MarketValue(held, md) ==
  IF held = <<>> THEN 0
  ELSE (IF Head(held).quantity # 0
        THEN Head(held).quantity * md[Head(held).mint].currentPrice ELSE 0)
       + MarketValue(Tail(held), md)

\* C24: after every executed trade the totalValue of the trading account's
\* portfolio is the sum, over the assets it holds with non-zero quantity, of
\* quantity times the asset's current market price.
C24_TotalValue ==
  [][ExecutedTrade =>
       /\ Has(portfolios', Caller)
       /\ portfolios'[Caller].totalValue
            = MarketValue(portfolios'[Caller].assets, marketData')]_vars

\* the step submitted an order for assetMint to the engine: a market buy or
\* sell, or a limit order (whose result names the stored order)
Submitted(assetMint) ==
  \/ /\ EngineCalled("buyTokens") \/ EngineCalled("sellTokens")
     /\ lastResult'.arg = assetMint
  \/ /\ EngineCalled("placeLimitOrder")
     /\ Has(orders', lastResult'.arg)
     /\ ~Has(orders, lastResult'.arg)
     /\ orders'[lastResult'.arg].assetMint = assetMint

\* C25: an order submission (market buy, market sell or limit order) for an
\* asset that the trading engine has no market data for fails with
\* ASSET_NOT_FOUND, stores no order and changes no portfolio or market data.
C25_UnknownAssetRejected ==
  [][\A m \in MintArgs :
       (Submitted(m) /\ ~Has(marketData, m)) =>
         /\ lastResult'.code = "ASSET_NOT_FOUND"
         /\ UNCHANGED <<orders, portfolios, marketData>>]_vars

\* C26: every asset entry stored in a portfolio has quantity > 0: a trade
\* that brings a position to zero or below removes its entry in the same
\* step, and the portfolio record itself stays.
C26_EntriesPositive ==
  [][/\ \A w \in DOMAIN portfolios' :
          \A i \in 1 .. Len(portfolios'[w].assets) :
            portfolios'[w].assets[i].quantity > 0
     /\ \A w \in DOMAIN portfolios : Has(portfolios', w)
     /\ ExecutedTrade =>
          LET m == lastResult'.arg
              qty == TradedQuantity(m)
              left == IF lastResult'.op = "buyTokens"
                      THEN Position(portfolios, Caller, m) + qty
                      ELSE Position(portfolios, Caller, m) - qty
          IN /\ Has(portfolios', Caller)
             /\ left <= 0 => ~HoldsAsset(portfolios', Caller, m)]_vars

\* a buy of a negative quantity has just emptied one position of a caller
\* who holds another asset
C26_Witness ==
  /\ lastResult.op = "buyTokens" /\ lastResult.code = "OK"
  /\ Has(portfolios, Caller)
  /\ ~HoldsAsset(portfolios, Caller, lastResult.arg)
  /\ portfolios[Caller].assets # <<>>

WalletGuarded ==
  {"buyTokens", "sellTokens", "placeLimitOrder", "cancelOrder", "requestRedemption"}

Served(p) ==
  <<p.assets, p.priceHistory, p.marketData, p.portfolios, p.orders,
    p.redemptionRequests>>

\* C28: all route groups operate on one platform state: what a request to
\* one group has changed (an asset added, a trade executed, a redemption
\* requested) is the state that every other group reads.
C28_SharedState ==
  \A g, h \in RouteGroups :
    (platforms[g].loaded /\ platforms[h].loaded) =>
      Served(platforms[g]) = Served(platforms[h])

\* the redemption requests for an asset that are pending or processing
OpenRequests(assetMint) ==
  {id \in DOMAIN redemptionRequests :
     /\ redemptionRequests[id].assetMint = assetMint
     /\ redemptionRequests[id].status \in {"pending", "processing"}}

\* C29: at any time an asset has at most one redemption request that is
\* pending or processing: a second requestRedemption for it is rejected.
C29_OneOpenRequest ==
  \A m \in MintArgs : Cardinality(OpenRequests(m)) <= 1

\* C30: after removeAsset(x) has returned true the asset that x named is
\* found neither by its id nor by its mint and its price history is gone,
\* whether x was the id or the mint; when it returns false nothing changes.
C30_RemoveBothKeys ==
  [][lastResult'.op = "removeAsset" =>
       IF lastResult'.code = "OK"
       THEN LET removed == MapGet(assets, lastResult'.arg)
            IN /\ GetAssetById(assets', removed.id) = Null
               /\ GetAssetByMint(assets', removed.mint) = Null
               /\ ~Has(priceHistory', removed.mint)
       ELSE UNCHANGED <<assets, priceHistory>>]_vars

====
